---- MODULE Spec2Model ----
(***************************************************************************)
(* The family-tree layout of src/src/components/FamilyTree.tsx (the        *)
(* useMemo callback of the FamilyTree component) as a state machine, and   *)
(* the rendering of its spouse-pair nodes by MarriedPersonNode of          *)
(* src/src/components/tree/nodes.tsx.                                      *)
(*                                                                         *)
(* Ids are numbers; a person is [id, dob], dob = [year, month, day] with 0 *)
(* for a missing field; a marriage is [id, spouses, children].             *)
(* The recursion of layoutMarriage is an explicit stack of frames.         *)
(* calls and writes are history variables: the log of layoutMarriage calls *)
(* and of the assignments to nodePositions.                                *)
(*                                                                         *)
(* SpecReload runs the callback again on other inputs (invocation,         *)
(* firstLayout); SpecApi is the POST and PUT of                            *)
(* src/src/app/api/marriages/route.ts over the Marriage collection         *)
(* (storedMarriages, request, response).                                   *)
(***************************************************************************)
EXTENDS Integers, Sequences, FiniteSets, TLC

VARIABLES persons, marriages,
          pc, spouseToMarriageIds, marriageHasParent, rootMarriages,
          nodePositions, visitedMarriages, nodes, edges,
          stack, ret, globalX, rootIdx,
          rendered,
          calls, writes,
          invocation, firstLayout,
          storedMarriages, request, response

vars == <<persons, marriages, pc, spouseToMarriageIds, marriageHasParent,
          rootMarriages, nodePositions, visitedMarriages, nodes, edges,
          stack, ret, globalX, rootIdx, rendered, calls, writes,
          invocation, firstLayout, storedMarriages, request, response>>

(* the state of the layout and of its invocations *)
layoutVars == <<persons, marriages, pc, spouseToMarriageIds, marriageHasParent,
                rootMarriages, nodePositions, visitedMarriages, nodes, edges,
                stack, ret, globalX, rootIdx, rendered, calls, writes,
                invocation, firstLayout>>

(* the Marriage collection, the last request to /api/marriages, its status *)
apiVars == <<storedMarriages, request, response>>

(* ------------------------------ bounds -------------------------------- *)
MaxId == 5
MaxMarriages == 3
MaxChildEntries == 2
MaxSortChildren == 4

(* ------------------------- program constants -------------------------- *)
hSpacing == 160
vSpacing == 80
marriageNodeDrop == 5

(* ------------------------------ helpers ------------------------------- *)
Range(s) == {s[i] : i \in 1..Len(s)}

includes(s, x) == \E i \in 1..Len(s) : s[i] = x

SetMin(S) == CHOOSE x \in S : \A y \in S : x <= y
SetMax(S) == CHOOSE x \in S : \A y \in S : x >= y

NoDob == [year |-> 0, month |-> 0, day |-> 0]
NoDate == -1

PersonKey(id) == <<"person", id>>
SpouseNodeId(mid) == <<"spouses", mid>>
MarriageNodeId(mid) == <<"marriage", mid>>

(* persons.find(p => p._id === id): index of the first match, 0 if none *)
FindPersonIdx(ps, id) ==
    IF \E i \in 1..Len(ps) : ps[i].id = id
    THEN CHOOSE i \in 1..Len(ps) :
            ps[i].id = id /\ \A j \in 1..(i - 1) : ps[j].id # id
    ELSE 0

(* new Date(year, monthIndex, day).getTime(), counted in days *)
IsLeap(y) == (y % 4 = 0 /\ y % 100 # 0) \/ y % 400 = 0
DaysBeforeYear(y) == 365 * y + ((y + 3) \div 4) - ((y + 99) \div 100) + ((y + 399) \div 400)
CumDays == <<0, 31, 59, 90, 120, 151, 181, 212, 243, 273, 304, 334>>
DaysBeforeMonth(y, mi) == CumDays[mi + 1] + (IF IsLeap(y) /\ mi >= 2 THEN 1 ELSE 0)
DateDays(year, monthIndex, day) ==
    LET y == IF year >= 0 /\ year <= 99 THEN 1900 + year ELSE year
    IN  DaysBeforeYear(y) + DaysBeforeMonth(y, monthIndex) + (day - 1)

dobToDate(ps, id) ==
    LET i == FindPersonIdx(ps, id)
    IN  IF i = 0 THEN NoDate
        ELSE IF ps[i].dob.year = 0 THEN NoDate
        ELSE DateDays(ps[i].dob.year,
                      (IF ps[i].dob.month = 0 THEN 1 ELSE ps[i].dob.month) - 1,
                      IF ps[i].dob.day = 0 THEN 1 ELSE ps[i].dob.day)

(* the comparator with the dated children in descending order *)
compareChildrenDescending(ps, a, b) ==
    LET da == dobToDate(ps, a)
        db == dobToDate(ps, b)
    IN  IF da = NoDate /\ db = NoDate THEN 0
        ELSE IF da = NoDate THEN 1
        ELSE IF db = NoDate THEN -1
        ELSE db - da

(* the comparator handed to sort: negative, zero or positive *)
compareChildren(ps, a, b) ==
    LET da == dobToDate(ps, a)
        db == dobToDate(ps, b)
    IN  IF da = NoDate /\ db = NoDate THEN 0
        ELSE IF da = NoDate THEN 1
        ELSE IF db = NoDate THEN -1
        ELSE da - db

(* Array.prototype.sort is stable: x goes after every element not greater *)
InsertStable(ps, s, x) ==
    LET k == Cardinality({i \in 1..Len(s) : compareChildren(ps, s[i], x) <= 0})
    IN  SubSeq(s, 1, k) \o <<x>> \o SubSeq(s, k + 1, Len(s))

RECURSIVE SortFrom(_, _, _, _)
SortFrom(ps, children, i, acc) ==
    IF i > Len(children) THEN acc
    ELSE SortFrom(ps, children, i + 1, InsertStable(ps, acc, children[i]))

sortedChildren(ps, children) == SortFrom(ps, children, 1, <<>>)

(* ------------------- Map get / set, Record assignment ----------------- *)
(* a lookup that never finds the list of a key *)
MapGetNothing(map, k) == <<>>

(* map[k] ?? [] *)
MapGet(map, k) == IF k \in DOMAIN map THEN map[k] ELSE <<>>
MapSet(map, k, v) == [x \in (DOMAIN map) \cup {k} |-> IF x = k THEN v ELSE map[x]]
EmptyMap == <<>>

(* marriageMap = Object.fromEntries(...): the last entry with the id wins *)
InMarriageMap(ms, mid) == \E i \in 1..Len(ms) : ms[i].id = mid
MarriageIdx(ms, mid) ==
    CHOOSE i \in 1..Len(ms) :
       ms[i].id = mid /\ \A j \in (i + 1)..Len(ms) : ms[j].id # mid

marriageMap(ms, mid) == ms[MarriageIdx(ms, mid)]

(* ---------------------------- index builder --------------------------- *)
RECURSIVE BuildSpouseIndex(_, _, _, _)
BuildSpouseIndex(ms, i, j, map) ==
    IF i > Len(ms) THEN map
    ELSE IF j > Len(ms[i].spouses) THEN BuildSpouseIndex(ms, i + 1, 1, map)
    ELSE LET s == ms[i].spouses[j]
         IN  BuildSpouseIndex(ms, i, j + 1,
                 MapSet(map, s, Append(MapGet(map, s), ms[i].id)))

(* ---------------------------- root detector --------------------------- *)
(* root detection that skips no child entry *)
IsOwnSpouseNever(m, childId) == FALSE

(* a child entry that is a spouse of the marriage listing it is skipped *)
IsOwnSpouse(m, childId) == includes(m.spouses, childId)

RECURSIVE MarkParents(_, _, _, _, _)
MarkParents(ms, s2m, i, j, hp) ==
    IF i > Len(ms) THEN hp
    ELSE IF j > Len(ms[i].children) THEN MarkParents(ms, s2m, i + 1, 1, hp)
    ELSE LET childId == ms[i].children[j]
             childMarriageIds == MapGet(s2m, childId)
         IN  IF IsOwnSpouse(ms[i], childId)
             THEN MarkParents(ms, s2m, i, j + 1, hp)
             ELSE MarkParents(ms, s2m, i, j + 1,
                    [x \in (DOMAIN hp) \cup Range(childMarriageIds) |->
                        IF x \in Range(childMarriageIds) THEN TRUE ELSE hp[x]])

DetectParents(ms, s2m) ==
    MarkParents(ms, s2m, 1, 1, [x \in {ms[i].id : i \in 1..Len(ms)} |-> FALSE])

IsRootMarriage(hp, m) == ~hp[m.id]

FilterRoots(ms, hp) == SelectSeq(ms, LAMBDA m : IsRootMarriage(hp, m))

(* --------------------------- input families --------------------------- *)
Ids == 1..MaxId

SpousePairs == {<<a, b>> : a \in Ids, b \in Ids} \ {<<a, a>> : a \in Ids}

OrderedPairs == {sp \in SpousePairs : sp[1] < sp[2]}

ChildSeqs(n) == UNION {[1..k -> Ids] : k \in 0..n}

(* children lists of k marriages holding at most budget entries in total *)
RECURSIVE ChildAssign(_, _)
ChildAssign(k, budget) ==
    IF k = 0 THEN {<<>>}
    ELSE UNION {{<<c>> \o f : f \in ChildAssign(k - 1, budget - Len(c))} :
                c \in ChildSeqs(budget)}

MkMarriages(sp, ch) ==
    [i \in 1..Len(sp) |-> [id |-> i, spouses |-> sp[i], children |-> ch[i]]]

(* year of birth by id: a later id is older, so list order and age differ *)
YearOfId(id) == 2000 - id

MkPersons(n) ==
    [i \in 1..n |-> [id |-> i, dob |-> [year |-> YearOfId(i), month |-> 0, day |-> 0]]]

DobYears == {0, 1990, 1992, 1995}

(* ------------------------------- Init --------------------------------- *)
(* the state in which the useMemo callback starts *)
CallbackStart ==
    /\ pc = "init"
    /\ spouseToMarriageIds = EmptyMap
    /\ marriageHasParent = EmptyMap
    /\ rootMarriages = <<>>
    /\ nodePositions = EmptyMap
    /\ visitedMarriages = {}
    /\ nodes = <<>>
    /\ edges = <<>>
    /\ stack = <<>>
    /\ ret = [centerX |-> 0, nextX |-> 0]
    /\ globalX = 0
    /\ rootIdx = 1
    /\ rendered = "no"
    /\ calls = <<>>
    /\ writes = <<>>

NoLayout == [persons |-> <<>>, marriages |-> <<>>, nodes |-> <<>>, edges |-> <<>>]

NoRequest == [method |-> "none", hasSpouses |-> FALSE, spouses |-> <<>>]

InitControl ==
    /\ CallbackStart
    /\ invocation = 1
    /\ firstLayout = NoLayout
    /\ storedMarriages = <<>>
    /\ request = NoRequest
    /\ response = 0

(* persons 1 and 2 marry first; any further marriages and any children over *)
(* Ids; with fewer than MaxMarriages marriages the last id may be missing   *)
(* from the person list                                                     *)
InitFamilies ==
    \E k \in 0..MaxMarriages :
       \E sp \in [1..k -> OrderedPairs], ch \in ChildAssign(k, MaxChildEntries) :
          /\ k > 0 => sp[1] = <<1, 2>>
          /\ marriages = MkMarriages(sp, ch)
          /\ \E n \in {MaxId - 1, MaxId} :
                /\ n = MaxId \/ k < MaxMarriages
                /\ persons = MkPersons(n)

(* one marriage of persons 1 and 2 with children 3, 4, ... of any birth year *)
InitSiblings ==
    \E k \in 0..MaxSortChildren :
       \E years \in [3..(k + 2) -> DobYears], n \in {k + 1, k + 2} :
          /\ n >= 2
          /\ persons = [i \in 1..n |->
                [id |-> i,
                 dob |-> IF i >= 3 THEN [year |-> years[i], month |-> 0, day |-> 0]
                         ELSE NoDob]]
          /\ marriages = <<[id |-> 1, spouses |-> <<1, 2>>,
                            children |-> [j \in 1..k |-> j + 2]]>>

Init == (InitFamilies \/ InitSiblings) /\ InitControl

(* ------------------------ start of the callback ----------------------- *)
BuildIndex ==
    /\ pc = "init"
    /\ LET s2m == BuildSpouseIndex(marriages, 1, 1, EmptyMap)
           hp == DetectParents(marriages, s2m)
       IN  /\ spouseToMarriageIds' = s2m
           /\ marriageHasParent' = hp
           /\ rootMarriages' = FilterRoots(marriages, hp)
    /\ pc' = "roots"
    /\ UNCHANGED <<apiVars, invocation, firstLayout, persons, marriages, nodePositions, visitedMarriages, nodes,
                   edges, stack, ret, globalX, rootIdx, rendered, calls, writes>>

(* ------------------------- layoutMarriage ----------------------------- *)
(* a sort of m.children itself: the marriage's list takes the sorted order *)
ChildrenSortedInPlace(children, sorted) == sorted

(* m.children after [...(m.children ?? [])].sort(...): the copy was sorted *)
ChildrenAfterSort(children, sorted) == children

PassesGuard(ms, visited, marriageId) ==
    InMarriageMap(ms, marriageId) /\ marriageId \notin visited

(* a layoutMarriage that forgets to record the marriage *)
MarkVisitedForgets(visited, marriageId) == visited

MarkVisited(visited, marriageId) == visited \cup {marriageId}

(* a guard that returns without reserving a slot *)
GuardResultNoSlot(xOffset) == [centerX |-> xOffset, nextX |-> xOffset]

(* the result for an unknown or visited marriage: one slot at xOffset *)
GuardResult(xOffset) == [centerX |-> xOffset, nextX |-> xOffset + hSpacing]

(* entry of layoutMarriage(marriageId, depth, xOffset), called for child  *)
(* number childIdx of call number parent (0, 0 for the driving loop)      *)
layoutMarriage(marriageId, depth, xOffset, parent, childIdx) ==
    LET callRec(passed, sorted) ==
            [mid |-> marriageId, depth |-> depth, xOffset |-> xOffset,
             parent |-> parent, childIdx |-> childIdx, passed |-> passed,
             sorted |-> sorted, done |-> ~passed,
             centerX |-> GuardResult(xOffset).centerX,
             nextX |-> GuardResult(xOffset).nextX]
    IN  IF ~PassesGuard(marriages, visitedMarriages, marriageId)
        THEN /\ ret' = GuardResult(xOffset)
             /\ pc' = "return"
             /\ calls' = Append(calls, callRec(FALSE, <<>>))
             /\ UNCHANGED <<marriages, visitedMarriages, stack>>
        ELSE /\ visitedMarriages' = MarkVisited(visitedMarriages, marriageId)
             /\ marriages' = [marriages EXCEPT
                    ![MarriageIdx(marriages, marriageId)].children =
                        ChildrenAfterSort(@, sortedChildren(persons, @))]
             /\ stack' = Append(stack,
                    [call |-> Len(calls) + 1,
                     m |-> marriageId,
                     depth |-> depth,
                     xOffset |-> xOffset,
                     currentX |-> xOffset,
                     childCenters |-> <<>>,
                     sorted |-> sortedChildren(persons,
                                    marriageMap(marriages, marriageId).children),
                     i |-> 1])
             /\ pc' = "children"
             /\ calls' = Append(calls, callRec(TRUE,
                    sortedChildren(persons, marriageMap(marriages, marriageId).children)))
             /\ UNCHANGED ret

Top == stack[Len(stack)]

SetTop(f) == [stack EXCEPT ![Len(stack)] = f]

(* the last marriage of the child that was not visited; 0 if none *)
LastUnvisited(ids, visited) ==
    IF \E i \in 1..Len(ids) : ids[i] \notin visited
    THEN ids[CHOOSE i \in 1..Len(ids) :
                ids[i] \notin visited /\ \A j \in (i + 1)..Len(ids) : ids[j] \in visited]
    ELSE 0

(* childMarriageIds.find(mid => !visitedMarriages.has(mid)); 0 if none *)
FirstUnvisited(ids, visited) ==
    IF \E i \in 1..Len(ids) : ids[i] \notin visited
    THEN ids[CHOOSE i \in 1..Len(ids) :
                ids[i] \notin visited /\ \A j \in 1..(i - 1) : ids[j] \in visited]
    ELSE 0

ChildMarriageToLayout(cid) ==
    FirstUnvisited(MapGet(spouseToMarriageIds, cid), visitedMarriages)

(* the driving loop calls layoutMarriage for the next root *)
LayoutRoot ==
    /\ pc = "roots"
    /\ rootIdx <= Len(rootMarriages)
    /\ layoutMarriage(rootMarriages[rootIdx].id, 1, globalX, 0, 0)
    /\ UNCHANGED <<apiVars, invocation, firstLayout, persons, spouseToMarriageIds, marriageHasParent,
                   rootMarriages, nodePositions, nodes, edges, globalX, rootIdx,
                   rendered, writes>>

(* a child with an unvisited marriage: recurse two rows lower *)
RecurseChild ==
    /\ pc = "children"
    /\ Top.i <= Len(Top.sorted)
    /\ ChildMarriageToLayout(Top.sorted[Top.i]) # 0
    /\ layoutMarriage(ChildMarriageToLayout(Top.sorted[Top.i]),
                      Top.depth + 2, Top.currentX, Top.call, Top.i)
    /\ UNCHANGED <<apiVars, invocation, firstLayout, persons, spouseToMarriageIds, marriageHasParent,
                   rootMarriages, nodePositions, nodes, edges, globalX, rootIdx,
                   rendered, writes>>

(* a leaf child on the row of the depth itself *)
LeafYOnDepthRow(depth) == depth * vSpacing

LeafY(depth) == (depth + 1) * vSpacing

(* a child without an unvisited marriage: a leaf at the cursor *)
PlaceLeafChild ==
    /\ pc = "children"
    /\ Top.i <= Len(Top.sorted)
    /\ ChildMarriageToLayout(Top.sorted[Top.i]) = 0
    /\ LET cid == Top.sorted[Top.i]
           pos == [x |-> Top.currentX, y |-> LeafY(Top.depth)]
       IN  /\ nodePositions' = MapSet(nodePositions, PersonKey(cid), pos)
           /\ writes' = Append(writes, [call |-> Top.call, childIdx |-> Top.i,
                                        key |-> PersonKey(cid), x |-> pos.x, y |-> pos.y])
           /\ stack' = SetTop([Top EXCEPT
                                 !.childCenters = Append(@, Top.currentX),
                                 !.currentX = @ + hSpacing,
                                 !.i = @ + 1])
    /\ UNCHANGED <<apiVars, invocation, firstLayout, persons, marriages, pc, spouseToMarriageIds, marriageHasParent,
                   rootMarriages, visitedMarriages, nodes, edges, ret, globalX,
                   rootIdx, rendered, calls>>

(* a marriage aligned with its leftmost child *)
CenterOfLeftmost(childCenters, currentX) ==
    IF Len(childCenters) > 0 THEN SetMin(Range(childCenters)) ELSE currentX

(* centerX of a marriage from the centers of its children and the cursor *)
CenterOf(childCenters, currentX) ==
    IF Len(childCenters) > 0
    THEN (SetMin(Range(childCenters)) + SetMax(Range(childCenters))) \div 2
    ELSE currentX

(* a result that looks at the center only *)
ReserveNextXCenterOnly(currentX, centerX) == centerX + hSpacing

(* a result that reserves nothing to the right of the center *)
ReserveNextXCursorOnly(currentX, centerX) == currentX

ReserveNextX(currentX, centerX) ==
    IF currentX >= centerX + hSpacing THEN currentX ELSE centerX + hSpacing

(* m.spouses.map(id => persons.find(...)).filter(p => !!p), as person ids *)
ResolveSpouses(ps, spouses) ==
    SelectSeq(spouses, LAMBDA id : FindPersonIdx(ps, id) # 0)

SpouseY(depth) == (depth - 1) * vSpacing

(* a marriage node exactly on the row of its depth *)
MarriageYOnRow(depth) == depth * vSpacing

MarriageY(depth) == depth * vSpacing + marriageNodeDrop

(* the last marriage of the list that is known, not the first *)
LastKnown(ms, ids) ==
    IF \E i \in 1..Len(ids) : InMarriageMap(ms, ids[i])
    THEN ids[CHOOSE i \in 1..Len(ids) :
                /\ InMarriageMap(ms, ids[i])
                /\ \A j \in (i + 1)..Len(ids) : ~InMarriageMap(ms, ids[j])]
    ELSE 0

(* childMarriageIds.find(mid => marriageMap[mid]); 0 if none *)
FirstKnown(ms, ids) ==
    IF \E i \in 1..Len(ids) : InMarriageMap(ms, ids[i])
    THEN ids[CHOOSE i \in 1..Len(ids) :
                /\ InMarriageMap(ms, ids[i])
                /\ \A j \in 1..(i - 1) : ~InMarriageMap(ms, ids[j])]
    ELSE 0

(* every child edge to the bare person node *)
EdgeTargetBarePerson(ms, s2m, cid) == PersonKey(cid)

EdgeTarget(ms, s2m, cid) ==
    LET childMarriageId == FirstKnown(ms, MapGet(s2m, cid))
    IN  IF childMarriageId # 0 THEN SpouseNodeId(childMarriageId) ELSE PersonKey(cid)

MkEdge(source, target, animated) ==
    [id |-> <<source, target>>, source |-> source, target |-> target,
     animated |-> animated]

ChildEdges(ms, s2m, m) ==
    [j \in 1..Len(m.children) |->
        MkEdge(MarriageNodeId(m.id), EdgeTarget(ms, s2m, m.children[j]), TRUE)]

MkNode(id, type, pos, spouses) ==
    [id |-> id, type |-> type, position |-> pos, spouses |-> spouses]

(* after the children loop: center, the two nodes, the edges, the result *)
FinishMarriage ==
    /\ pc = "children"
    /\ Top.i > Len(Top.sorted)
    /\ LET f == Top
           m == marriageMap(marriages, f.m)
           centerX == CenterOf(f.childCenters, f.currentX)
           spousePos == [x |-> centerX, y |-> SpouseY(f.depth)]
           marriagePos == [x |-> centerX, y |-> MarriageY(f.depth)]
           nextX == ReserveNextX(f.currentX, centerX)
       IN  /\ nodePositions' = MapSet(MapSet(nodePositions, SpouseNodeId(m.id), spousePos),
                                      MarriageNodeId(m.id), marriagePos)
           /\ writes' = writes \o
                 <<[call |-> f.call, childIdx |-> 0, key |-> SpouseNodeId(m.id),
                    x |-> spousePos.x, y |-> spousePos.y],
                   [call |-> f.call, childIdx |-> 0, key |-> MarriageNodeId(m.id),
                    x |-> marriagePos.x, y |-> marriagePos.y]>>
           /\ nodes' = nodes \o
                 <<MkNode(SpouseNodeId(m.id), "marriedPerson", spousePos,
                          ResolveSpouses(persons, m.spouses)),
                   MkNode(MarriageNodeId(m.id), "marriage", marriagePos, <<>>)>>
           /\ edges' = (edges \o
                 <<MkEdge(SpouseNodeId(m.id), MarriageNodeId(m.id), FALSE)>>)
                 \o ChildEdges(marriages, spouseToMarriageIds, m)
           /\ ret' = [centerX |-> centerX, nextX |-> nextX]
           /\ calls' = [calls EXCEPT ![f.call] =
                           [@ EXCEPT !.done = TRUE, !.centerX = centerX, !.nextX = nextX]]
    /\ stack' = SubSeq(stack, 1, Len(stack) - 1)
    /\ pc' = "return"
    /\ UNCHANGED <<apiVars, invocation, firstLayout, persons, marriages, spouseToMarriageIds, marriageHasParent,
                   rootMarriages, visitedMarriages, globalX, rootIdx, rendered>>

(* the children loop takes the result of the recursive call *)
ReturnToParent ==
    /\ pc = "return"
    /\ stack # <<>>
    /\ stack' = SetTop([Top EXCEPT
                          !.childCenters = Append(@, ret.centerX),
                          !.currentX = ret.nextX,
                          !.i = @ + 1])
    /\ pc' = "children"
    /\ UNCHANGED <<apiVars, invocation, firstLayout, persons, marriages, spouseToMarriageIds, marriageHasParent,
                   rootMarriages, nodePositions, visitedMarriages, nodes, edges,
                   ret, globalX, rootIdx, rendered, calls, writes>>

(* globalX = nextX + hSpacing *)
NextGlobalX(nextX) == nextX + hSpacing

(* the driving loop takes the result of a root's call *)
ReturnToRoots ==
    /\ pc = "return"
    /\ stack = <<>>
    /\ globalX' = NextGlobalX(ret.nextX)
    /\ rootIdx' = rootIdx + 1
    /\ pc' = "roots"
    /\ UNCHANGED <<apiVars, invocation, firstLayout, persons, marriages, spouseToMarriageIds, marriageHasParent,
                   rootMarriages, nodePositions, visitedMarriages, nodes, edges,
                   stack, ret, rendered, calls, writes>>

isSpouse(ms, id) == \E i \in 1..Len(ms) : includes(ms[i].spouses, id)

OrphanPosition == [x |-> 0, y |-> 0]

(* a pass that gives every person the fallback position *)
PersonPositionFallbackAlways(np, id) == OrphanPosition

(* nodePositions[p._id] ?? { x: 0, y: 0 } *)
PersonPosition(np, id) ==
    IF PersonKey(id) \in DOMAIN np THEN np[PersonKey(id)] ELSE OrphanPosition

StandaloneNodes(ps, ms, np) ==
    LET keep == SelectSeq(ps, LAMBDA p : ~isSpouse(ms, p.id))
    IN  [i \in 1..Len(keep) |->
            MkNode(PersonKey(keep[i].id), "person", PersonPosition(np, keep[i].id), <<>>)]

(* after the roots: a person node for every person who is no spouse *)
BuildPersonNodes ==
    /\ pc = "roots"
    /\ rootIdx > Len(rootMarriages)
    /\ nodes' = nodes \o StandaloneNodes(persons, marriages, nodePositions)
    /\ pc' = "done"
    /\ UNCHANGED <<apiVars, invocation, firstLayout, persons, marriages, spouseToMarriageIds, marriageHasParent,
                   rootMarriages, nodePositions, visitedMarriages, edges, stack,
                   ret, globalX, rootIdx, rendered, calls, writes>>

(* MarriedPersonNode reads .dob of data.spouses[0] and data.spouses[1] *)
MarriedPersonNodeThrows(node) == Len(node.spouses) < 2

RenderResult(ns) ==
    IF \E i \in 1..Len(ns) :
          ns[i].type = "marriedPerson" /\ MarriedPersonNodeThrows(ns[i])
    THEN "threw" ELSE "ok"

(* ReactFlow renders every node with its component of nodeTypes *)
Render ==
    /\ pc = "done"
    /\ rendered = "no"
    /\ rendered' = RenderResult(nodes)
    /\ UNCHANGED <<apiVars, invocation, firstLayout, persons, marriages, pc, spouseToMarriageIds, marriageHasParent,
                   rootMarriages, nodePositions, visitedMarriages, nodes, edges,
                   stack, ret, globalX, rootIdx, calls, writes>>

Next ==
    \/ BuildIndex
    \/ LayoutRoot
    \/ RecurseChild
    \/ PlaceLeafChild
    \/ FinishMarriage
    \/ ReturnToParent
    \/ ReturnToRoots
    \/ BuildPersonNodes
    \/ Render

Spec == Init /\ [][Next]_vars

(* ---------------- children with a month and a day of birth ------------ *)
(* what PartialDateSchema accepts: months 1..12 and days 1..31 on their    *)
(* own, 0 for a missing field; a leap year and the year after it           *)
DobMonths == {0, 1, 2, 3, 12}
DobDays == {0, 1, 29, 30, 31}
DobLeapYears == {2000, 2001}

DobTriples == [year : DobLeapYears, month : DobMonths, day : DobDays]

(* persons 1 and 2 with the children 3 and 4 of any such date of birth;    *)
(* child 3 may be married to person 5                                      *)
InitBirthDates ==
    /\ \E d3 \in DobTriples, d4 \in DobTriples :
          persons = [i \in 1..5 |->
                       [id |-> i,
                        dob |-> IF i = 3 THEN d3 ELSE IF i = 4 THEN d4 ELSE NoDob]]
    /\ \E married \in BOOLEAN :
          marriages = <<[id |-> 1, spouses |-> <<1, 2>>, children |-> <<3, 4>>]>>
                      \o (IF married
                          THEN <<[id |-> 2, spouses |-> <<3, 5>>, children |-> <<>>]>>
                          ELSE <<>>)
    /\ InitControl

SpecBirthDates == InitBirthDates /\ [][Next]_vars

(* ----------------- a second invocation of the callback ---------------- *)
MaxReloadMarriages == 2
MaxInvocations == 3

Reverse(s) == [i \in 1..Len(s) |-> s[Len(s) + 1 - i]]

(* what setPersons and setMarriages may receive after the first layout:   *)
(* the marriages reversed, the marriages without the first one, or the    *)
(* persons without the last one                                           *)
OtherInputs(ps, ms) ==
    ({[persons |-> ps, marriages |-> Reverse(ms)]}
        \cup (IF ms # <<>> THEN {[persons |-> ps, marriages |-> Tail(ms)]} ELSE {})
        \cup (IF ps # <<>>
              THEN {[persons |-> SubSeq(ps, 1, Len(ps) - 1), marriages |-> ms]}
              ELSE {}))
    \ {[persons |-> ps, marriages |-> ms]}

(* the first input, then another input, then the first input again *)
LoadChoices ==
    IF invocation = 1 THEN OtherInputs(persons, marriages)
    ELSE {[persons |-> firstLayout.persons, marriages |-> firstLayout.marriages]}

(* a callback that goes on with the set of the previous invocation *)
StaleVisitedMarriages(previous) == previous

(* const visitedMarriages = new Set(), whatever the previous invocation left *)
NewVisitedMarriages(previous) == {}

(* const nodePositions = {} *)
NewNodePositions(previous) == EmptyMap

(* the state changes and the callback of useMemo runs again *)
Reload ==
    /\ pc = "done"
    /\ rendered = "ok"
    /\ invocation < MaxInvocations
    /\ \E input \in LoadChoices :
          /\ persons' = input.persons
          /\ marriages' = input.marriages
    /\ firstLayout' = IF invocation = 1
                      THEN [persons |-> persons, marriages |-> marriages,
                            nodes |-> nodes, edges |-> edges]
                      ELSE firstLayout
    /\ invocation' = invocation + 1
    /\ pc' = "init"
    /\ spouseToMarriageIds' = EmptyMap
    /\ marriageHasParent' = EmptyMap
    /\ rootMarriages' = <<>>
    /\ nodePositions' = NewNodePositions(nodePositions)
    /\ visitedMarriages' = NewVisitedMarriages(visitedMarriages)
    /\ nodes' = <<>>
    /\ edges' = <<>>
    /\ stack' = <<>>
    /\ ret' = [centerX |-> 0, nextX |-> 0]
    /\ globalX' = 0
    /\ rootIdx' = 1
    /\ rendered' = "no"
    /\ calls' = <<>>
    /\ writes' = <<>>
    /\ UNCHANGED apiVars

(* every person present; up to MaxReloadMarriages marriages *)
InitReload ==
    /\ \E k \in 0..MaxReloadMarriages :
          \E sp \in [1..k -> OrderedPairs], ch \in ChildAssign(k, MaxChildEntries) :
             /\ k > 0 => sp[1] = <<1, 2>>
             /\ marriages = MkMarriages(sp, ch)
    /\ persons = MkPersons(MaxId)
    /\ InitControl

NextReload == Next \/ Reload

SpecReload == InitReload /\ [][NextReload]_vars

(* ------------------ /api/marriages: POST and PUT ---------------------- *)
(* A stored marriage is [id, spouses, children]; its _id is its place in   *)
(* storedMarriages. A person id of a request is 0 for an empty entry, the  *)
(* id of a stored person, or MaxApiPersons + 1, the id of no person.       *)
MaxDocs == 2
MaxApiPersons == 2
MaxSpouses == 3

RequestIds == 0..(MaxApiPersons + 1)

(* the spouses lists of the requests: every list shorter than MaxSpouses,  *)
(* and the lists of two stored persons followed by one more entry          *)
SpouseLists ==
    UNION {[1..n -> RequestIds] : n \in 0..(MaxSpouses - 1)}
    \cup {s \o <<x>> : s \in [1..(MaxSpouses - 1) -> 1..MaxApiPersons], x \in RequestIds}

ChildLists == {<<>>, <<1>>, <<MaxApiPersons + 1>>}

(* the id field of a POST: 0 absent, -1 not of the form m<digits>, or m1.. *)
PostIds == {-1, 0} \cup 1..(MaxDocs - 1)

(* Person.countDocuments({ id: { $in: ids } }) *)
CountPersons(ps, ids) == Cardinality({i \in 1..Len(ps) : includes(ids, ps[i].id)})

(* the validator of MarriageSchema.spouses *)
spousesValidator(v) == Len(v) = 2 /\ v[1] # v[2]

(* match: /^m\d+$/ of MarriageSchema.id *)
IdMatches(id) == id >= 1

(* MarriageSchema.pre('validate'): m<sequence> of the counter, which has   *)
(* counted the stored marriages with a generated id; the requests' own ids *)
(* lie below MaxDocs                                                       *)
GeneratedId(stored) ==
    MaxDocs + Cardinality({i \in 1..Len(stored) : stored[i].id >= MaxDocs})

(* POST: the status of the checks of the spouses, 0 if they pass *)
PostSpousesError(ps, hasSpouses, spouses) ==
    IF ~hasSpouses \/ Len(spouses) # 2 THEN 400
    ELSE IF spouses[1] = 0 \/ spouses[2] = 0 \/ spouses[1] = spouses[2] THEN 400
    ELSE IF CountPersons(ps, spouses) # 2 THEN 400
    ELSE 0

(* a PUT that leaves the spouses to the validator of the schema *)
PutSpousesUnchecked(ps, hasSpouses, spouses) == 0

(* PUT: the status of the checks of the spouses if provided, 0 if they pass *)
PutSpousesError(ps, hasSpouses, spouses) ==
    IF ~hasSpouses THEN 0
    ELSE IF Len(spouses) # 2 THEN 400
    ELSE IF spouses[1] = 0 \/ spouses[2] = 0 \/ spouses[1] = spouses[2] THEN 400
    ELSE IF CountPersons(ps, spouses) # 2 THEN 400
    ELSE 0

(* PUT: the status of the check of the children if provided *)
PutChildrenError(ps, hasChildren, children) ==
    IF hasChildren /\ Len(children) > 0 /\ CountPersons(ps, children) # Len(children)
    THEN 400 ELSE 0

(* POST /api/marriages *)
Post ==
    /\ Len(storedMarriages) < MaxDocs
    /\ \E id \in PostIds, hasSpouses \in BOOLEAN, spouses \in SpouseLists,
          hasChildren \in BOOLEAN, children \in ChildLists :
          /\ hasSpouses \/ spouses = <<>>
          /\ hasChildren \/ children = <<>>
          /\ request' = [method |-> "POST", hasSpouses |-> hasSpouses,
                         spouses |-> spouses]
          /\ LET err == PostSpousesError(persons, hasSpouses, spouses)
                 newId == IF id = 0 THEN GeneratedId(storedMarriages) ELSE id
             IN  IF err # 0
                 THEN response' = err /\ UNCHANGED storedMarriages
                 ELSE IF ~IdMatches(newId) \/ ~spousesValidator(spouses)
                 THEN response' = 400 /\ UNCHANGED storedMarriages
                 ELSE IF \E i \in 1..Len(storedMarriages) : storedMarriages[i].id = newId
                 THEN response' = 500 /\ UNCHANGED storedMarriages
                 ELSE /\ storedMarriages' = Append(storedMarriages,
                             [id |-> newId, spouses |-> spouses, children |-> children])
                      /\ response' = 201
    /\ UNCHANGED layoutVars

(* PUT /api/marriages; docId 0 is a request without _id *)
Put ==
    /\ \E docId \in 0..MaxDocs, hasSpouses \in BOOLEAN, spouses \in SpouseLists,
          hasChildren \in BOOLEAN, children \in ChildLists :
          /\ hasSpouses \/ spouses = <<>>
          /\ hasChildren \/ children = <<>>
          /\ request' = [method |-> "PUT", hasSpouses |-> hasSpouses,
                         spouses |-> spouses]
          /\ IF docId = 0
             THEN response' = 400 /\ UNCHANGED storedMarriages
             ELSE IF PutSpousesError(persons, hasSpouses, spouses) # 0
             THEN /\ response' = PutSpousesError(persons, hasSpouses, spouses)
                  /\ UNCHANGED storedMarriages
             ELSE IF PutChildrenError(persons, hasChildren, children) # 0
             THEN /\ response' = PutChildrenError(persons, hasChildren, children)
                  /\ UNCHANGED storedMarriages
             ELSE IF hasSpouses /\ ~spousesValidator(spouses)
             THEN response' = 400 /\ UNCHANGED storedMarriages
             ELSE IF docId > Len(storedMarriages)
             THEN response' = 404 /\ UNCHANGED storedMarriages
             ELSE /\ storedMarriages' = [storedMarriages EXCEPT ![docId] =
                         [@ EXCEPT !.spouses = IF hasSpouses THEN spouses ELSE @,
                                   !.children = IF hasChildren THEN children ELSE @]]
                  /\ response' = 200
    /\ UNCHANGED layoutVars

InitApi ==
    /\ persons = MkPersons(MaxApiPersons)
    /\ marriages = <<>>
    /\ InitControl

NextApi == Post \/ Put

SpecApi == InitApi /\ [][NextApi]_vars

(* ===================== the properties of the layout ==================== *)
Done == pc = "done"

MarriageIdsOf(id) == {marriages[i].id : i \in {i \in 1..Len(marriages) : includes(marriages[i].spouses, id)}}

NodeIdxs(id) == {i \in 1..Len(nodes) : nodes[i].id = id}

(* the nodes that show person id: its person node, spouse-pair nodes holding it *)
NodesShowing(id) ==
    {i \in 1..Len(nodes) :
        \/ nodes[i].type = "person" /\ nodes[i].id = PersonKey(id)
        \/ nodes[i].type = "marriedPerson" /\ includes(nodes[i].spouses, id)}

PassedCalls == {k \in 1..Len(calls) : calls[k].passed}
RootCalls == {k \in 1..Len(calls) : calls[k].parent = 0}

(* call k is call c or was made, directly or not, while c was running *)
RECURSIVE IsWithin(_, _)
IsWithin(k, c) ==
    IF k = 0 THEN FALSE
    ELSE IF k = c THEN TRUE
    ELSE IsWithin(calls[k].parent, c)

(* the x of every position written while call c was laid out *)
SubtreeXs(c) == {writes[w].x : w \in {w \in 1..Len(writes) : IsWithin(writes[w].call, c)}}

ChildCalls(c, j) == {k \in 1..Len(calls) : calls[k].parent = c /\ calls[k].childIdx = j}

(* the x of every position written for child number j of call c *)
ChildXs(c, j) ==
    {writes[w].x : w \in {w \in 1..Len(writes) :
        \/ writes[w].call = c /\ writes[w].childIdx = j
        \/ \E k \in ChildCalls(c, j) : IsWithin(writes[w].call, k)}}

SpansApart(A, B) ==
    A = {} \/ B = {} \/ SetMax(A) < SetMin(B) \/ SetMax(B) < SetMin(A)

(* C1: Totality -- once the layout is done, every person of the person list *)
(* is shown by exactly one node of the output (its person node or a        *)
(* spouse-pair node holding it): none omitted, none duplicated.            *)
C1_Totality ==
    Done => \A i \in 1..Len(persons) :
               Cardinality(NodesShowing(persons[i].id)) = 1

(* C2: when every marriage has two distinct spouses, every marriage of the  *)
(* list has exactly one marriage node and exactly one spouse-pair node in   *)
(* the finished output, also when a person is a spouse of several marriages.*)
C2_EveryMarriageOnce ==
    (Done /\ \A i \in 1..Len(marriages) :
                /\ Len(marriages[i].spouses) = 2
                /\ marriages[i].spouses[1] # marriages[i].spouses[2])
    => \A i \in 1..Len(marriages) :
          /\ Cardinality(NodeIdxs(MarriageNodeId(marriages[i].id))) = 1
          /\ Cardinality(NodeIdxs(SpouseNodeId(marriages[i].id))) = 1

(* C3: No-overlap -- the spans of x written for two different roots of the  *)
(* driving loop do not intersect, and neither do the spans written for two  *)
(* different children of one marriage.                                      *)
C3_NoOverlap ==
    /\ \A c1 \in RootCalls, c2 \in RootCalls :
          c1 # c2 => SpansApart(SubtreeXs(c1), SubtreeXs(c2))
    /\ \A c \in PassedCalls :
          \A j1 \in 1..Len(calls[c].sorted), j2 \in 1..Len(calls[c].sorted) :
             j1 # j2 => SpansApart(ChildXs(c, j1), ChildXs(c, j2))

(* two roots were laid out and some marriage has placed two children, one *)
(* of them with a marriage of its own                                     *)
C3_Witness ==
    /\ Done
    /\ Cardinality(RootCalls \cap PassedCalls) >= 2
    /\ \E c \in PassedCalls :
          /\ Len(calls[c].sorted) >= 2
          /\ \E j \in 1..Len(calls[c].sorted) : ChildCalls(c, j) # {}

GuardOnce ==
    \A k1 \in PassedCalls, k2 \in PassedCalls :
       k1 # k2 => calls[k1].mid # calls[k2].mid

TotalChildEntries ==
    LET RECURSIVE SumFrom(_)
        SumFrom(i) == IF i > Len(marriages) THEN 0
                      ELSE Len(marriages[i].children) + SumFrom(i + 1)
    IN  SumFrom(1)

RemainingChildren ==
    LET RECURSIVE SumFrom(_)
        SumFrom(i) == IF i > Len(stack) THEN 0
                      ELSE (Len(stack[i].sorted) + 1 - stack[i].i) + SumFrom(i + 1)
    IN  SumFrom(1)

UnvisitedWeight == 2 * TotalChildEntries + 3

(* a natural number that every step of the layout makes smaller *)
Variant ==
    LET unvisited == Cardinality({i \in 1..Len(marriages) :
                                     marriages[i].id \notin visitedMarriages})
        phase == CASE pc = "roots" -> 2
                   [] pc = "children" -> 1
                   [] OTHER -> 0
        toRender == IF rendered = "no" THEN 1 ELSE 0
    IN  IF pc = "init"
        THEN (UnvisitedWeight + 3) * Len(marriages) + 4
        ELSE UnvisitedWeight * unvisited
             + 3 * (Len(rootMarriages) + 1 - rootIdx)
             + 2 * RemainingChildren + 2 * Len(stack) + phase + toRender

(* the guard of some action of Next holds *)
CanStep ==
    \/ pc = "init"
    \/ pc = "roots"
    \/ pc = "children" /\ stack # <<>>
    \/ pc = "return"
    \/ pc = "done" /\ rendered = "no"

(* C4: Cycle termination -- on every input the layout reaches its result:  *)
(* every step makes a natural number smaller and a step is possible until   *)
(* the result is there; no marriage id passes the guard of layoutMarriage   *)
(* twice.                                                                   *)
C4_CycleTermination ==
    /\ [](GuardOnce /\ Variant >= 0 /\ (Done \/ CanStep))
    /\ [][Variant' < Variant]_vars

(* a finished layout of a marriage whose child is a spouse of the marriage  *)
(* itself or of a marriage that was being laid out above it                 *)
C4_Witness ==
    /\ Done
    /\ \E c \in PassedCalls, a \in PassedCalls :
          /\ calls[c].depth >= 3
          /\ IsWithin(c, a)
          /\ \E j \in 1..Len(calls[c].sorted) :
                a \in {k \in PassedCalls : calls[k].mid \in MarriageIdsOf(calls[c].sorted[j])}
    /\ \E i \in 1..Len(marriages), j \in 1..Len(marriages) :
          i # j /\ marriages[i].spouses = marriages[j].spouses

(* ------------------------- children of a call ------------------------- *)
ChildrenOfCall(c) == marriageMap(marriages, calls[c].mid).children

BirthYear(id) ==
    IF FindPersonIdx(persons, id) = 0 THEN 0
    ELSE persons[FindPersonIdx(persons, id)].dob.year

LeafWrites(c, j) ==
    {w \in 1..Len(writes) : writes[w].call = c /\ writes[w].childIdx = j}

ChildPlaced(c, j) ==
    LeafWrites(c, j) # {} \/ \E k \in ChildCalls(c, j) : calls[k].done

(* the center recorded for child number j of call c *)
ChildCenter(c, j) ==
    IF ChildCalls(c, j) # {}
    THEN calls[CHOOSE k \in ChildCalls(c, j) : TRUE].centerX
    ELSE writes[CHOOSE w \in LeafWrites(c, j) : TRUE].x

Occurrences(seq, x) == Cardinality({i \in 1..Len(seq) : seq[i] = x})

(* C6: Child ordering -- the children of a marriage are placed left to     *)
(* right in the sorted order, which is a rearrangement of the children     *)
(* list with ascending birth years, every dated child before every child   *)
(* without a date (a child missing from the person list has none), and the *)
(* children without a date in the order of the children list.              *)
C6_ChildOrdering ==
    \A c \in PassedCalls :
       LET s == calls[c].sorted
           ch == ChildrenOfCall(c)
       IN  /\ Len(s) = Len(ch)
           /\ \A x \in Range(ch) \cup Range(s) : Occurrences(s, x) = Occurrences(ch, x)
           /\ \A i \in 1..Len(s), j \in 1..Len(s) :
                 (i < j /\ BirthYear(s[j]) # 0) =>
                    (BirthYear(s[i]) # 0 /\ BirthYear(s[i]) <= BirthYear(s[j]))
           /\ SelectSeq(s, LAMBDA x : BirthYear(x) = 0)
                 = SelectSeq(ch, LAMBDA x : BirthYear(x) = 0)
           /\ \A i \in 1..Len(s), j \in 1..Len(s) :
                 (i < j /\ ChildPlaced(c, i) /\ ChildPlaced(c, j)) =>
                    ChildCenter(c, i) < ChildCenter(c, j)

(* the example: birth years 1995, 1990, none, 1992 come out as 1990, 1992, *)
(* 1995, none, at x growing from left to right                             *)
C6_Witness ==
    /\ Done
    /\ \E c \in PassedCalls :
          /\ [i \in 1..Len(ChildrenOfCall(c)) |-> BirthYear(ChildrenOfCall(c)[i])]
                = <<1995, 1990, 0, 1992>>
          /\ [i \in 1..Len(calls[c].sorted) |-> BirthYear(calls[c].sorted[i])]
                = <<1990, 1992, 1995, 0>>
          /\ \A i \in 1..3 :
                nodePositions[PersonKey(calls[c].sorted[i])].x
                   < nodePositions[PersonKey(calls[c].sorted[i + 1])].x

(* some marriage lists a child that is no spouse of it and is a spouse of M *)
HasParentMarriage(M) ==
    \E i \in 1..Len(marriages) :
       \E j \in 1..Len(marriages[i].children) :
          /\ ~includes(marriages[i].spouses, marriages[i].children[j])
          /\ includes(M.spouses, marriages[i].children[j])

(* the input without the child entries that name a spouse of their marriage *)
WithoutOwnSpouseChildren ==
    [i \in 1..Len(marriages) |->
        [marriages[i] EXCEPT !.children =
            SelectSeq(@, LAMBDA c : ~includes(marriages[i].spouses, c))]]

RootIds(roots) == [i \in 1..Len(roots) |-> roots[i].id]

(* C7: Root detection -- the roots are, in list order, the marriages M for  *)
(* which no marriage lists a child that is no spouse of that marriage and   *)
(* is a spouse of M; they are the roots of the input without the child      *)
(* entries that name a spouse of their own marriage.                        *)
C7_RootDetection ==
    pc # "init" =>
       /\ rootMarriages = SelectSeq(marriages, LAMBDA M : ~HasParentMarriage(M))
       /\ \A i \in 1..Len(marriages) :
             marriageHasParent[marriages[i].id] = HasParentMarriage(marriages[i])
       /\ RootIds(rootMarriages) =
             RootIds(FilterRoots(WithoutOwnSpouseChildren,
                        DetectParents(WithoutOwnSpouseChildren,
                           BuildSpouseIndex(WithoutOwnSpouseChildren, 1, 1, EmptyMap))))

(* the example m1(1, 2, children 3), m2(3, 4): m1 is a root, m2 is not *)
C7_Witness ==
    /\ pc # "init"
    /\ Len(marriages) = 2
    /\ marriages[1].spouses = <<1, 2>> /\ marriages[1].children = <<3>>
    /\ marriages[2].spouses = <<3, 4>> /\ marriages[2].children = <<>>
    /\ rootMarriages = <<marriages[1]>>

(* the persons shown by a person node that have no recorded position *)
Unpositioned ==
    SelectSeq(persons, LAMBDA p :
        /\ NodeIdxs(PersonKey(p.id)) # {}
        /\ PersonKey(p.id) \notin DOMAIN nodePositions)

MaxAssignedX ==
    IF DOMAIN nodePositions = {} THEN 0
    ELSE SetMax({nodePositions[k].x : k \in DOMAIN nodePositions})

(* C8: Orphan placement -- in the finished output the k-th person without  *)
(* an assigned position, in person-list order, is at y = 0 and at          *)
(* x = (maximum assigned x) + k * hSpacing.                                *)
C8_OrphanPlacement ==
    Done => \A k \in 1..Len(Unpositioned) :
               \A i \in NodeIdxs(PersonKey(Unpositioned[k].id)) :
                  nodes[i].position = [x |-> MaxAssignedX + k * hSpacing, y |-> 0]

C10_UnresolvedTolerated ==
    /\ Done => \A i \in 1..Len(nodes) :
                  nodes[i].type = "marriedPerson" =>
                     \E j \in 1..Len(marriages) :
                        /\ nodes[i].id = SpouseNodeId(marriages[j].id)
                        /\ nodes[i].spouses =
                              SelectSeq(marriages[j].spouses,
                                 LAMBDA id : \E q \in 1..Len(persons) : persons[q].id = id)
    /\ rendered # "threw"

(* C11: no state crosses invocations. Whenever the callback starts, its   *)
(* visitedMarriages, nodePositions, node list and edge list are empty; and *)
(* when an input is laid out again after another input was laid out, the   *)
(* nodes and edges are exactly those of laying out that input first.       *)
C11_FreshPerInvocation ==
    /\ pc = "init" => CallbackStart
    /\ (/\ invocation > 1
        /\ pc = "done"
        /\ persons = firstLayout.persons
        /\ marriages = firstLayout.marriages)
       => (nodes = firstLayout.nodes /\ edges = firstLayout.edges)

(* the third invocation has laid out the first input again: two marriages, *)
(* a child with a marriage of its own, and edges                           *)
C11_Witness ==
    /\ invocation = 3
    /\ pc = "done"
    /\ persons = firstLayout.persons
    /\ marriages = firstLayout.marriages
    /\ Len(marriages) = 2
    /\ Cardinality(visitedMarriages) = 2
    /\ Len(rootMarriages) = 1
    /\ Len(edges) >= 3

(* C12: the layout does not modify its inputs. No step of the callback     *)
(* changes the persons list or the marriages list: the spouses and the     *)
(* children of every marriage, and the order of the children, stay as they *)
(* were, although the children are laid out in sorted order.               *)
C12_InputsUnchanged ==
    [][persons' = persons /\ marriages' = marriages]_vars

(* a finished layout whose marriage was laid out in an order of children   *)
(* other than the order of its list                                        *)
C12_Witness ==
    /\ Done
    /\ \E c \in 1..Len(calls) :
          /\ calls[c].passed
          /\ Len(calls[c].sorted) >= 2
          /\ calls[c].sorted # marriageMap(marriages, calls[c].mid).children

(* a spouses list of a length other than 2, with an empty entry, or with   *)
(* two equal entries                                                       *)
BadSpousesList(req) ==
    /\ req.hasSpouses
    /\ \/ Len(req.spouses) # 2
       \/ \E j \in 1..Len(req.spouses) : req.spouses[j] = 0
       \/ req.spouses[1] = req.spouses[2]

(* C13: after any sequence of POST and PUT requests every stored marriage  *)
(* has exactly two spouse ids, none empty, and the two differ; a POST or   *)
(* PUT whose spouses list has a length other than 2, an empty entry or two *)
(* equal entries is answered with 400 and leaves the stored marriages as   *)
(* they were.                                                              *)
C13_TwoDistinctSpouses ==
    /\ [](\A i \in 1..Len(storedMarriages) :
            /\ Len(storedMarriages[i].spouses) = 2
            /\ storedMarriages[i].spouses[1] # 0
            /\ storedMarriages[i].spouses[2] # 0
            /\ storedMarriages[i].spouses[1] # storedMarriages[i].spouses[2])
    /\ [][BadSpousesList(request')
            => (response' = 400 /\ storedMarriages' = storedMarriages)]_vars

(* a PUT with two equal spouses was answered with 400 while two marriages  *)
(* are stored, one of them with the spouses in the updated order           *)
C13_Witness ==
    /\ request.method = "PUT"
    /\ request.hasSpouses
    /\ Len(request.spouses) = 2
    /\ request.spouses[1] = request.spouses[2]
    /\ request.spouses[1] # 0
    /\ response = 400
    /\ Len(storedMarriages) = 2
    /\ storedMarriages[1].spouses # storedMarriages[2].spouses

LastCall == calls[Len(calls)]

(* the step is a call of layoutMarriage that the guard turns back *)
GuardReturns == Len(calls') = Len(calls) + 1 /\ ~calls'[Len(calls')].passed

(* C14: a call of layoutMarriage for a marriage that is unknown or already *)
(* visited returns centerX = xOffset and nextX = xOffset + hSpacing, and   *)
(* leaves nodePositions, visitedMarriages, the nodes and the edges as they *)
(* were; such a call is made only for an unknown or visited marriage.      *)
C14_GuardFrame ==
    [][GuardReturns =>
          LET c == calls'[Len(calls')]
          IN  /\ ~InMarriageMap(marriages, c.mid) \/ c.mid \in visitedMarriages
              /\ ret'.centerX = c.xOffset
              /\ ret'.nextX = c.xOffset + hSpacing
              /\ pc' = "return"
              /\ UNCHANGED <<nodePositions, visitedMarriages, nodes, edges,
                             stack, writes>>]_vars

(* the driving loop has just called layoutMarriage for a root that was laid *)
(* out before as the marriage of a child, and got one slot                 *)
C14_Witness ==
    /\ pc = "return"
    /\ stack = <<>>
    /\ Len(calls) >= 2
    /\ ~LastCall.passed
    /\ LastCall.parent = 0
    /\ \E c \in 1..(Len(calls) - 1) :
          calls[c].passed /\ calls[c].mid = LastCall.mid /\ calls[c].parent # 0
    /\ ret = [centerX |-> LastCall.xOffset, nextX |-> LastCall.xOffset + hSpacing]
    /\ Len(nodes) > 0

(* the places in the marriage list of the unvisited marriages of a person *)
UnvisitedMarriagesOf(id) ==
    {i \in 1..Len(marriages) :
        includes(marriages[i].spouses, id) /\ marriages[i].id \notin visitedMarriages}

AtChild == pc = "children" /\ Top.i <= Len(Top.sorted)

(* C15: child placement. For the next child in sorted order of a marriage  *)
(* laid out at depth: if the child is a spouse of a marriage not yet       *)
(* visited, the first such marriage of the marriage list is laid out with  *)
(* depth + 2 at the cursor, and on its return its centerX is recorded as a *)
(* child center and the cursor becomes its nextX; otherwise the position   *)
(* of the child is (cursor, (depth + 1) * vSpacing), the cursor is         *)
(* recorded as a child center and advances by hSpacing.                    *)
C15_ChildPlacement ==
    /\ [][AtChild =>
            LET f == Top
                cid == f.sorted[f.i]
                cand == UnvisitedMarriagesOf(cid)
            IN  IF cand # {}
                THEN /\ Len(calls') = Len(calls) + 1
                     /\ calls'[Len(calls')].passed
                     /\ calls'[Len(calls')].mid = marriages[SetMin(cand)].id
                     /\ calls'[Len(calls')].depth = f.depth + 2
                     /\ calls'[Len(calls')].xOffset = f.currentX
                     /\ calls'[Len(calls')].parent = f.call
                     /\ calls'[Len(calls')].childIdx = f.i
                     /\ UNCHANGED <<nodePositions, writes>>
                     /\ stack'[Len(stack)] = f
                ELSE /\ nodePositions' = MapSet(nodePositions, PersonKey(cid),
                                              [x |-> f.currentX, y |-> (f.depth + 1) * vSpacing])
                     /\ Len(stack') = Len(stack)
                     /\ Top'.childCenters = Append(f.childCenters, f.currentX)
                     /\ Top'.currentX = f.currentX + hSpacing
                     /\ Top'.i = f.i + 1
                     /\ UNCHANGED calls]_vars
    /\ [][(pc = "return" /\ stack # <<>>) =>
            /\ Cardinality(ChildCalls(Top.call, Top.i)) = 1
            /\ \A k \in ChildCalls(Top.call, Top.i) :
                  /\ calls[k].done
                  /\ Len(stack') = Len(stack)
                  /\ Top'.childCenters = Append(Top.childCenters, calls[k].centerX)
                  /\ Top'.currentX = calls[k].nextX
                  /\ Top'.i = Top.i + 1]_vars

(* a marriage has taken the result of the marriage laid out for its first  *)
(* child, the first of two marriages of that child, and has placed its     *)
(* second child as a leaf                                                  *)
C15_Witness ==
    /\ pc = "children"
    /\ Top.i = 3
    /\ Len(Top.sorted) = 2
    /\ ChildCalls(Top.call, 1) # {}
    /\ LeafWrites(Top.call, 2) # {}
    /\ Cardinality(MarriageIdsOf(Top.sorted[1])) = 2
    /\ \A k \in ChildCalls(Top.call, 1) :
          calls[k].mid = SetMin(MarriageIdsOf(Top.sorted[1]))
    /\ Top.currentX = calls[CHOOSE k \in ChildCalls(Top.call, 1) : TRUE].nextX + hSpacing

(* the finished calls of layoutMarriage that passed the guard *)
FinishedCalls == {c \in PassedCalls : calls[c].done}

(* the output holds node id at position pos, and so does nodePositions *)
NodeAt(id, pos) ==
    /\ \E i \in 1..Len(nodes) : nodes[i].id = id /\ nodes[i].position = pos
    /\ \A i \in 1..Len(nodes) : nodes[i].id = id => nodes[i].position = pos
    /\ id \in DOMAIN nodePositions
    /\ nodePositions[id] = pos

(* C16 as stated: a marriage laid out at depth d with center centerX has   *)
(* its spouse-pair node at (centerX, (d - 1) * vSpacing) and its marriage  *)
(* node at (centerX, d * vSpacing).                                        *)
C16_NodeRows ==
    \A c \in FinishedCalls :
       /\ NodeAt(SpouseNodeId(calls[c].mid),
                 [x |-> calls[c].centerX, y |-> (calls[c].depth - 1) * vSpacing])
       /\ NodeAt(MarriageNodeId(calls[c].mid),
                 [x |-> calls[c].centerX, y |-> calls[c].depth * vSpacing])

(* C16 amended: a marriage laid out at depth d with center centerX has its *)
(* spouse-pair node at (centerX, (d - 1) * vSpacing) and its marriage node *)
(* at (centerX, d * vSpacing + 5), 5 below the row; both have the same x.  *)
C16_NodeRowsAmended ==
    \A c \in FinishedCalls :
       /\ NodeAt(SpouseNodeId(calls[c].mid),
                 [x |-> calls[c].centerX, y |-> (calls[c].depth - 1) * vSpacing])
       /\ NodeAt(MarriageNodeId(calls[c].mid),
                 [x |-> calls[c].centerX, y |-> calls[c].depth * vSpacing + 5])
       /\ nodePositions[SpouseNodeId(calls[c].mid)].x
             = nodePositions[MarriageNodeId(calls[c].mid)].x

(* a finished layout with a marriage at depth 3 whose center is not 0 *)
C16_Witness ==
    /\ Done
    /\ \E c \in FinishedCalls :
          /\ calls[c].depth = 3
          /\ calls[c].centerX > 0
          /\ nodePositions[MarriageNodeId(calls[c].mid)].y = 3 * vSpacing + 5

EdgesFrom(source) == SelectSeq(edges, LAMBDA e : e.source = source)

(* C17: edges. Every laid-out marriage has exactly one edge from its       *)
(* spouse-pair node, which goes to its marriage node and is not animated,  *)
(* and one animated edge from its marriage node per entry of its children  *)
(* list, whose target is a spouse-pair node of a marriage of that child if *)
(* the child is a spouse of any marriage and the person node of the child  *)
(* otherwise. Every edge starts at a node of a laid-out marriage.          *)
C17_Edges ==
    /\ \A c \in FinishedCalls :
          LET mid == calls[c].mid
              children == ChildrenOfCall(c)
              down == EdgesFrom(MarriageNodeId(mid))
          IN  /\ EdgesFrom(SpouseNodeId(mid))
                    = <<[id |-> <<SpouseNodeId(mid), MarriageNodeId(mid)>>,
                         source |-> SpouseNodeId(mid),
                         target |-> MarriageNodeId(mid),
                         animated |-> FALSE]>>
              /\ Len(down) = Len(children)
              /\ \A j \in 1..Len(children) :
                    /\ down[j].animated
                    /\ IF MarriageIdsOf(children[j]) # {}
                       THEN \E k \in MarriageIdsOf(children[j]) :
                               down[j].target = SpouseNodeId(k)
                       ELSE down[j].target = PersonKey(children[j])
    /\ \A e \in 1..Len(edges) :
          \E c \in FinishedCalls :
             edges[e].source \in {SpouseNodeId(calls[c].mid), MarriageNodeId(calls[c].mid)}

(* a finished layout of a marriage with two children, one a spouse of a    *)
(* marriage and one of none                                                *)
C17_Witness ==
    /\ Done
    /\ \E c \in FinishedCalls :
          /\ Len(ChildrenOfCall(c)) = 2
          /\ MarriageIdsOf(ChildrenOfCall(c)[1]) # {}
          /\ MarriageIdsOf(ChildrenOfCall(c)[2]) = {}
          /\ Len(EdgesFrom(MarriageNodeId(calls[c].mid))) = 2
    /\ Len(edges) >= 4

Max(a, b) == IF a >= b THEN a ELSE b

(* the children loop of the running call is over *)
AtFinish == pc = "children" /\ Top.i > Len(Top.sorted)

(* C18: reservation. A call of layoutMarriage that passes the guard        *)
(* returns nextX = max(cursor after the last child, centerX + hSpacing);   *)
(* for every finished call nextX >= xOffset + hSpacing, xOffset <= centerX *)
(* <= nextX - hSpacing, and every x written while the call ran, by itself  *)
(* or by the calls under it, lies in [xOffset, nextX - hSpacing].          *)
C18_Reservation ==
    /\ [][AtFinish =>
            /\ ret'.nextX = Max(Top.currentX, ret'.centerX + hSpacing)
            /\ calls'[Top.call].done
            /\ calls'[Top.call].nextX = ret'.nextX
            /\ calls'[Top.call].centerX = ret'.centerX]_vars
    /\ [](\A c \in FinishedCalls :
            /\ calls[c].nextX >= calls[c].xOffset + hSpacing
            /\ calls[c].xOffset <= calls[c].centerX
            /\ calls[c].centerX <= calls[c].nextX - hSpacing
            /\ \A x \in SubtreeXs(c) :
                  calls[c].xOffset <= x /\ x <= calls[c].nextX - hSpacing)

(* a finished call that started right of 0, with a call under it, whose    *)
(* nextX is the cursor after its last child and exceeds centerX + hSpacing *)
C18_Witness ==
    \E c \in FinishedCalls :
       /\ calls[c].xOffset > 0
       /\ calls[c].nextX > calls[c].centerX + hSpacing
       /\ \E k \in FinishedCalls : calls[k].parent = c
       /\ Cardinality(SubtreeXs(c)) >= 3

(* the place of a marriage id in the marriage list *)
ListPlace(mid) == CHOOSE i \in 1..Len(marriages) : marriages[i].id = mid

(* the k-th call made by the driving loop *)
RootCall(k) ==
    CHOOSE c \in RootCalls : Cardinality({d \in RootCalls : d <= c}) = k

(* C19: driving loop. The root marriages are laid out in the order of the *)
(* marriage list, each by a call layoutMarriage(root, 1, globalX) of the   *)
(* driving loop; globalX is 0 for the first root and the nextX returned    *)
(* for the previous root plus hSpacing for every later one; so once the    *)
(* layout is done the spouse-pair node of a later root is at least two     *)
(* hSpacing (a slot and a gutter) right of that of every earlier root.     *)
C19_DrivingLoop ==
    pc # "init" =>
       /\ \A k \in 1..Len(rootMarriages) : \A l \in (k + 1)..Len(rootMarriages) :
             ListPlace(rootMarriages[k].id) < ListPlace(rootMarriages[l].id)
       /\ Cardinality(RootCalls) <= Len(rootMarriages)
       /\ Done => Cardinality(RootCalls) = Len(rootMarriages)
       /\ \A k \in 1..Cardinality(RootCalls) :
             LET c == calls[RootCall(k)]
             IN  /\ c.mid = rootMarriages[k].id
                 /\ c.depth = 1
                 /\ c.passed
                 /\ IF k = 1 THEN c.xOffset = 0
                    ELSE /\ calls[RootCall(k - 1)].done
                         /\ c.xOffset = calls[RootCall(k - 1)].nextX + hSpacing
       /\ Done =>
             \A k \in 1..Len(rootMarriages) : \A l \in (k + 1)..Len(rootMarriages) :
                /\ SpouseNodeId(rootMarriages[k].id) \in DOMAIN nodePositions
                /\ SpouseNodeId(rootMarriages[l].id) \in DOMAIN nodePositions
                /\ nodePositions[SpouseNodeId(rootMarriages[l].id)].x
                      >= nodePositions[SpouseNodeId(rootMarriages[k].id)].x + 2 * hSpacing

(* the ids of the marriages that have p as a spouse, in list order *)
MarriagesOfSpouse(p) ==
    LET sel == SelectSeq(marriages, LAMBDA m : includes(m.spouses, p))
    IN  [i \in 1..Len(sel) |-> sel[i].id]

(* the entries of the index that hold marriage id mid *)
IndexEntries(mid) ==
    {e \in UNION {{<<p, j>> : j \in 1..Len(spouseToMarriageIds[p])} :
                  p \in DOMAIN spouseToMarriageIds} :
        spouseToMarriageIds[e[1]][e[2]] = mid}

(* C20: index builder. Once the index is built, spouseToMarriageIds[p] is  *)
(* for every person id p that is a spouse of some marriage the list of the *)
(* ids of the marriages that have p as a spouse, in the order of the       *)
(* marriage list; a person id that is a spouse of no marriage has no       *)
(* entry; every marriage, having two different spouses, is held by exactly *)
(* 2 entries.                                                              *)
C20_IndexBuilder ==
    pc # "init" =>
       /\ \A p \in Ids \cup DOMAIN spouseToMarriageIds :
             IF MarriagesOfSpouse(p) = <<>>
             THEN p \notin DOMAIN spouseToMarriageIds
             ELSE /\ p \in DOMAIN spouseToMarriageIds
                  /\ spouseToMarriageIds[p] = MarriagesOfSpouse(p)
       /\ \A i \in 1..Len(marriages) :
             Cardinality(IndexEntries(marriages[i].id)) = 2

(* the index of two marriages listed with the higher id first: a person   *)
(* who is a spouse of both has them in list order, and a person has none   *)
C20_Witness ==
    /\ pc = "roots"
    /\ Len(marriages) = 2
    /\ marriages[1].id > marriages[2].id
    /\ \E p \in DOMAIN spouseToMarriageIds :
          spouseToMarriageIds[p] = <<marriages[1].id, marriages[2].id>>
    /\ \E p \in Ids : p \notin DOMAIN spouseToMarriageIds

(* the writes of the recursive pass to a key, and the last of them *)
WritesTo(key) == {w \in 1..Len(writes) : writes[w].key = key}

LastWritten(key) ==
    LET w == SetMax(WritesTo(key))
    IN  [x |-> writes[w].x, y |-> writes[w].y]

NonSpousePersons == {i \in 1..Len(persons) : ~isSpouse(marriages, persons[i].id)}

(* C21: the pass that emits the person nodes leaves nodePositions and the  *)
(* nodes of the recursive pass as they are; in the finished output a       *)
(* person who is no spouse has one person node, at the position the        *)
(* recursive pass wrote last for the person if it wrote one, and at the    *)
(* fallback position (0, 0) only if it wrote none.                         *)
C21_PositionedNotMoved ==
    /\ [][(pc = "roots" /\ pc' = "done") =>
            /\ nodePositions' = nodePositions
            /\ writes' = writes
            /\ SubSeq(nodes', 1, Len(nodes)) = nodes]_vars
    /\ [](Done => \A i \in NonSpousePersons :
            LET key == PersonKey(persons[i].id)
            IN  /\ Cardinality(NodeIdxs(key)) = 1
                /\ \A n \in NodeIdxs(key) :
                      /\ nodes[n].type = "person"
                      /\ IF WritesTo(key) # {}
                         THEN nodes[n].position = LastWritten(key)
                         ELSE nodes[n].position = [x |-> 0, y |-> 0]
                      /\ nodes[n].position = [x |-> 0, y |-> 0] => WritesTo(key) = {})

(* a finished output with a person node right of 0 where the recursive    *)
(* pass put it, and a person node of a person it never positioned          *)
C21_Witness ==
    /\ Done
    /\ \E i \in NonSpousePersons :
          /\ WritesTo(PersonKey(persons[i].id)) # {}
          /\ LastWritten(PersonKey(persons[i].id)).x > 0
          /\ \E n \in NodeIdxs(PersonKey(persons[i].id)) :
                nodes[n].position = LastWritten(PersonKey(persons[i].id))
    /\ \E i \in NonSpousePersons : WritesTo(PersonKey(persons[i].id)) = {}

(* C22: spouses are always placed by the recursive pass. In the finished   *)
(* output every person of the person list who is a spouse of at least one  *)
(* marriage is held by the spouse payload of at least one spouse-pair node.*)
C22_SpousesPlaced ==
    Done => \A i \in 1..Len(persons) :
               isSpouse(marriages, persons[i].id) =>
                  \E n \in 1..Len(nodes) :
                     /\ nodes[n].type = "marriedPerson"
                     /\ includes(nodes[n].spouses, persons[i].id)

(* the triple (year, month or 1, day or 1) of a dated person *)
DobTriple(id) ==
    LET d == persons[FindPersonIdx(persons, id)].dob
    IN  <<d.year, IF d.month = 0 THEN 1 ELSE d.month, IF d.day = 0 THEN 1 ELSE d.day>>

LexLess(s, t) ==
    \/ s[1] < t[1]
    \/ s[1] = t[1] /\ s[2] < t[2]
    \/ s[1] = t[1] /\ s[2] = t[2] /\ s[3] < t[3]

HasDobYear(id) ==
    FindPersonIdx(persons, id) # 0 /\ persons[FindPersonIdx(persons, id)].dob.year # 0

(* C23: birth-date comparison. Of two children of one marriage that both   *)
(* have a year of birth, the one with the lexicographically smaller triple *)
(* (year, month or 1, day or 1) comes first in the order in which the      *)
(* children are placed, for every month and day the schema accepts; with   *)
(* equal triples they keep the order of the children list.                 *)
C23_BirthDateOrder ==
    \A c \in PassedCalls :
       LET srt == calls[c].sorted
           ch == ChildrenOfCall(c)
       IN  \A i \in 1..Len(ch) : \A j \in 1..Len(ch) :
              (/\ ch[i] # ch[j]
               /\ HasDobYear(ch[i])
               /\ HasDobYear(ch[j])
               /\ \/ LexLess(DobTriple(ch[i]), DobTriple(ch[j]))
                  \/ DobTriple(ch[i]) = DobTriple(ch[j]) /\ i < j)
              => \A a \in 1..Len(srt) : \A b \in 1..Len(srt) :
                    (srt[a] = ch[i] /\ srt[b] = ch[j]) => a < b

NodeIds == {nodes[i].id : i \in 1..Len(nodes)}

PersonIds == {persons[i].id : i \in 1..Len(persons)}

AllChildrenArePersons ==
    \A i \in 1..Len(marriages) : Range(marriages[i].children) \subseteq PersonIds

(* C24: edge integrity. When every child id of every marriage is in the    *)
(* person list, every edge of the finished output has a source and a       *)
(* target that are ids of nodes of the output: no edge points at the       *)
(* spouse-pair node of a marriage that was never laid out or at a person   *)
(* without a person node.                                                  *)
C24_EdgeIntegrity ==
    (Done /\ AllChildrenArePersons)
       => \A e \in 1..Len(edges) :
             /\ edges[e].source \in NodeIds
             /\ edges[e].target \in NodeIds

(* a finished layout with an edge to the spouse-pair node of a child that  *)
(* is a spouse of a second marriage which was never laid out, and an edge  *)
(* to a person node                                                        *)
C24_Witness ==
    /\ Done
    /\ AllChildrenArePersons
    /\ \E e \in 1..Len(edges), c \in PersonIds, i \in 1..Len(marriages) :
          /\ edges[e].target = SpouseNodeId(FirstKnown(marriages, MapGet(spouseToMarriageIds, c)))
          /\ includes(marriages[i].spouses, c)
          /\ marriages[i].id \notin visitedMarriages
    /\ \E e \in 1..Len(edges), c \in PersonIds : edges[e].target = PersonKey(c)

UniqueInputIds ==
    /\ \A i \in 1..Len(persons), j \in 1..Len(persons) :
          persons[i].id = persons[j].id => i = j
    /\ \A i \in 1..Len(marriages), j \in 1..Len(marriages) :
          marriages[i].id = marriages[j].id => i = j

UniqueNodeIds ==
    \A i \in 1..Len(nodes), j \in 1..Len(nodes) : nodes[i].id = nodes[j].id => i = j

UniqueEdgeIds ==
    \A i \in 1..Len(edges), j \in 1..Len(edges) : edges[i].id = edges[j].id => i = j

(* C25: unique ids. With unique person ids and marriage ids in the input,  *)
(* no two nodes of the output have the same id and no two edges of the     *)
(* output have the same id, also when a marriage lists a child twice or    *)
(* two children of one marriage are the spouses of one marriage.           *)
C25_UniqueIds ==
    UniqueInputIds => (UniqueNodeIds /\ UniqueEdgeIds)

(* C26: no two nodes of the finished output have the same position; in     *)
(* particular the persons that got no position from the recursive pass     *)
(* coincide neither with each other nor with the spouse-pair node of the   *)
(* first root.                                                             *)
C26_DistinctPositions ==
    Done => \A i \in 1..Len(nodes), j \in 1..Len(nodes) :
               nodes[i].position = nodes[j].position => i = j

Abs(n) == IF n < 0 THEN -n ELSE n

(* C27: same-row separation. Two different nodes positioned by the         *)
(* recursive pass (spouse-pair nodes, marriage nodes, leaf children) with  *)
(* the same y have x coordinates at least hSpacing apart, for every input, *)
(* including persons that are a child of several marriages.                *)
C27_RowSeparation ==
    \A k1 \in DOMAIN nodePositions, k2 \in DOMAIN nodePositions :
       (k1 # k2 /\ nodePositions[k1].y = nodePositions[k2].y)
          => Abs(nodePositions[k1].x - nodePositions[k2].x) >= hSpacing

(* a finished layout in which a person was placed as a leaf child by two   *)
(* marriages and two different positioned nodes share a row                *)
C27_Witness ==
    /\ Done
    /\ \E w1 \in 1..Len(writes), w2 \in 1..Len(writes) :
          /\ writes[w1].key = writes[w2].key
          /\ writes[w1].call # writes[w2].call
          /\ writes[w1].childIdx > 0
          /\ writes[w2].childIdx > 0
    /\ \E k1 \in DOMAIN nodePositions, k2 \in DOMAIN nodePositions :
          /\ k1 # k2
          /\ nodePositions[k1].y = nodePositions[k2].y

(* the row of the spouse-pair node that finished call c put in the output *)
SpouseRow(c) ==
    nodes[CHOOSE i \in NodeIdxs(SpouseNodeId(calls[c].mid)) : TRUE].position.y

(* the calls made by recursion from a children loop, both ends finished *)
NestedCalls == {c \in FinishedCalls : calls[c].parent # 0 /\ calls[calls[c].parent].done}

(* C28: generation rows. When marriage X is laid out by recursion as the   *)
(* marriage of a child of marriage M, the spouse-pair node of X is exactly *)
(* 2 * vSpacing below the spouse-pair node of M and on the row of M's leaf *)
(* children; every laid-out marriage has an odd depth >= 1 and every       *)
(* position written by the recursive pass has y >= 0.                      *)
C28_GenerationRows ==
    /\ \A c \in NestedCalls :
          /\ SpouseRow(c) = SpouseRow(calls[c].parent) + 2 * vSpacing
          /\ \A w \in 1..Len(writes) :
                (writes[w].call = calls[c].parent /\ writes[w].childIdx > 0)
                   => writes[w].y = SpouseRow(c)
    /\ \A c \in PassedCalls : calls[c].depth >= 1 /\ calls[c].depth % 2 = 1
    /\ \A w \in 1..Len(writes) : writes[w].y >= 0
    /\ \A k \in DOMAIN nodePositions : nodePositions[k].y >= 0

(* a finished layout in which a marriage has a leaf child and a child      *)
(* whose marriage was laid out below it                                    *)
C28_Witness ==
    /\ Done
    /\ \E c \in NestedCalls : \E w \in 1..Len(writes) :
          /\ writes[w].call = calls[c].parent
          /\ writes[w].childIdx > 0
          /\ calls[c].depth = 3

(* C29: every root marriage (parent flag false) is laid out at depth 1:    *)
(* in the finished output its spouse-pair node is at y = 0, for every      *)
(* input, also when a marriage lists one of its own spouses as a child.    *)
C29_RootsOnTopRow ==
    Done => \A r \in 1..Len(rootMarriages) :
               /\ \E c \in PassedCalls :
                     calls[c].mid = rootMarriages[r].id /\ calls[c].depth = 1
               /\ \E i \in NodeIdxs(SpouseNodeId(rootMarriages[r].id)) :
                     nodes[i].position.y = 0

(* C30: edge target matches placement. Whenever marriage X is laid out     *)
(* under marriage M as the marriage of M's child c, the edge that M emits  *)
(* for c targets the spouse-pair node of X, the marriage placed below M,   *)
(* also when c is a spouse of several marriages.                           *)
C30_EdgeTargetIsPlaced ==
    \A c \in NestedCalls :
       LET M == calls[calls[c].parent]
           cid == M.sorted[calls[c].childIdx]
           children == marriageMap(marriages, M.mid).children
           down == EdgesFrom(MarriageNodeId(M.mid))
       IN  \A j \in 1..Len(children) :
              children[j] = cid => down[j].target = SpouseNodeId(calls[c].mid)

====
